---- MODULE Spec2Model ----
(***************************************************************************)
(* The INSEC server's detection pipeline: the handlers of EventHandler     *)
(* (server/models.go), the middleware of server/middleware.go and the      *)
(* router that server/main.go wires.                                       *)
(*                                                                         *)
(* Go strings are TLA+ strings.  Where the code searches a string (argv    *)
(* tokens, the Authorization header), Chars gives its characters, so that  *)
(* strings.Contains and strings.TrimPrefix are computed, not assumed.  A   *)
(* Go pointer is a sequence of length 0 (nil) or 1.                        *)
(***************************************************************************)
EXTENDS Integers, Sequences, FiniteSets, TLC

VARIABLES
    events,   \* the events table: rows in insertion order
    alerts,   \* the alerts table: rows in insertion order
    passes,   \* the detection goroutines started so far, running or finished
    dbUp,     \* the storage the handlers reach through h.db answers (TRUE) or fails
    req,      \* the last HTTP request served
    resp,     \* the response written for it
    ctx,      \* the keys the middleware set on that request's gin.Context
    handler,  \* the route handler that ran for it ("" when none ran)
    rules,    \* the rules table: rows in insertion order
    sent      \* the requests clients have sent to the rate-limited route in
              \* the current one-minute window (the server keeps no such count)

vars == <<events, alerts, passes, dbUp, req, resp, ctx, handler, rules, sent>>

(***************************************************************************)
(* Bounds of the model.                                                    *)
(***************************************************************************)
MaxIngests == 2
MaxRuleBatchLen == 2
MaxRules == 2
MaxSent == 102

(***************************************************************************)
(* The characters of the strings that are searched.                        *)
(***************************************************************************)
Chars(str) ==
    CASE str = "netcat" -> <<"n", "e", "t", "c", "a", "t">>
      [] str = "ncat" -> <<"n", "c", "a", "t">>
      [] str = "wget" -> <<"w", "g", "e", "t">>
      [] str = "curl" -> <<"c", "u", "r", "l">>
      [] str = "scp" -> <<"s", "c", "p">>
      [] str = "rclone" -> <<"r", "c", "l", "o", "n", "e">>
      [] str = "Curl" -> <<"C", "u", "r", "l">>
      [] str = "/curl" -> <<"/", "c", "u", "r", "l">>
      [] str = "http://x" -> <<"h", "t", "t", "p", ":", "/", "/", "x">>
      [] str = "http://evil" -> <<"h", "t", "t", "p", ":", "/", "/", "e", "v", "i", "l">>
      [] str = "ls" -> <<"l", "s">>
      [] str = "/opt/netcat/ncat" -> <<"/", "o", "p", "t", "/", "n", "e", "t", "c", "a", "t",
                                       "/", "n", "c", "a", "t">>
      [] str = "Bearer " -> <<"B", "e", "a", "r", "e", "r", " ">>
      [] str = "bearer " -> <<"b", "e", "a", "r", "e", "r", " ">>
      [] str = "Bearer" -> <<"B", "e", "a", "r", "e", "r">>
      [] str = "Basic " -> <<"B", "a", "s", "i", "c", " ">>
      [] str = "" -> <<>>

MiB == 1024 * 1024

\* strings.Contains(s, substr)
Contains(s, substr) ==
    LET a == Chars(s)
        b == Chars(substr)
    IN \E i \in 0..(Len(a) - Len(b)) : SubSeq(a, i + 1, i + Len(b)) = b

(***************************************************************************)
(* Event payloads (type Event).  proc and file are pointers; file.size is  *)
(* a pointer inside FileInfo.                                              *)
(***************************************************************************)
NoProc == <<>>
Proc(cmd) == <<[cmd |-> cmd]>>
NoFile == <<>>
FileNoSize == <<[size |-> <<>>]>>
File(size) == <<[size |-> <<size>>]>>

Ev(t, h, u, e, p, f) ==
    [id |-> 0, tenant_id |-> t, host_id |-> h, user_id |-> u, event_id |-> e,
     proc |-> p, file |-> f]

(***************************************************************************)
(* The payloads the sensors send in the pipeline runs: two tenants, an     *)
(* event that matches the transfer-tool rule, one that matches both rules  *)
(* and one that matches none.  EvBoth reuses the client-supplied event id  *)
(* of EvCurl under another tenant.                                         *)
(***************************************************************************)
EvCurl == Ev("t1", "h1", "u1", "e1", Proc(<<"curl">>), NoFile)
EvBoth == Ev("t2", "h2", "u2", "e1", Proc(<<"wget">>), File(150 * MiB))
EvQuiet == Ev("t1", "h1", "u1", "e2", NoProc, File(50 * MiB))
Palette == {EvCurl, EvBoth, EvQuiet}

(***************************************************************************)
(* The payloads of the rule runs: one tenant, every combination of a       *)
(* process descriptor (absent; tokens that match nothing, one of them a    *)
(* vocabulary word in another case; one matching token; two matching       *)
(* tokens, one of them a path) and a file descriptor (absent; no size;     *)
(* the threshold; one byte more).                                          *)
(***************************************************************************)
ProcChoices == {NoProc, Proc(<<"Curl", "ls">>), Proc(<<"curl", "http://x">>),
                Proc(<<"wget", "/curl">>)}
FileChoices == {NoFile, FileNoSize, File(100 * MiB), File(100 * MiB + 1)}
RulePalette == {Ev("t1", "h1", "u1", "e1", p, f) : p \in ProcChoices, f \in FileChoices}

\* All sequences over S of length at most n.
RECURSIVE SeqsUpTo(_, _)
SeqsUpTo(S, n) ==
    IF n = 0 THEN {<<>>}
    ELSE LET shorter == SeqsUpTo(S, n - 1)
         IN shorter \cup {Append(s, x) : s \in shorter, x \in S}

(***************************************************************************)
(* Request bodies.  kind is what the JSON document is: "array" (a list of  *)
(* event objects, items), "null", "object" (valid JSON, not a list),       *)
(* "badElement" (a list one of whose elements has a field of the wrong     *)
(* type), "garbage" (not JSON) or "none" (no body).                        *)
(***************************************************************************)
Body(kind, items) == [kind |-> kind, items |-> items]
NoBody == Body("none", <<>>)
\* The bodies of the pipeline runs: the empty batch, every batch of one
\* event, a batch of two, and every kind of body that is not a batch.
Batches == {<<>>, <<EvBoth, EvCurl>>} \cup {<<e>> : e \in Palette}
Bodies ==
    {Body("array", items) : items \in Batches}
        \cup {Body(k, <<>>) : k \in {"null", "object", "garbage", "none"}}
        \cup {Body("badElement", <<EvCurl, EvCurl>>)}
\* The bodies of the rule runs: every batch over RulePalette.
RuleBodies == {Body("array", items) : items \in SeqsUpTo(RulePalette, MaxRuleBatchLen)}

\* A decoder that skips the elements it cannot decode instead of failing.
ShouldBindJSON_Lenient(body) ==
    IF body.kind \in {"array", "badElement"}
    THEN [err |-> FALSE, events |-> body.items]
    ELSE IF body.kind = "null" THEN [err |-> FALSE, events |-> <<>>]
    ELSE [err |-> TRUE, events |-> <<>>]

\* c.ShouldBindJSON(&events): the whole document decodes into []Event, or
\* the call fails.  Event.ID is tagged json:"-": no payload sets it.
ShouldBindJSON(body) ==
    IF body.kind = "array" THEN [err |-> FALSE, events |-> body.items]
    ELSE IF body.kind = "null" THEN [err |-> FALSE, events |-> <<>>]
    ELSE [err |-> TRUE, events |-> <<>>]

(***************************************************************************)
(* Requests and responses.                                                 *)
(***************************************************************************)
\* An Authorization header: the string scheme followed by the text of a
\* JWT, if any.  A JWT is its claims and what decides its validation: that
\* it decodes, that its signature is made with the server's secret, that
\* its exp has passed.
Header(scheme, jwt) == [scheme |-> scheme, jwt |-> jwt]
NoHeader == Header("", <<>>)
JWT(user, tenant, role, wellformed, signed, expired) ==
    <<[user_id |-> user, tenant_id |-> tenant, role |-> role,
       wellformed |-> wellformed, signed |-> signed, expired |-> expired]>>
\* Query parameters: "" is a parameter that is absent or empty; page and
\* limit are absent (<<>>) or a number.
Query(tenant, host, status, severity, page, limit) ==
    [tenant_id |-> tenant, host_id |-> host, status |-> status,
     severity |-> severity, page |-> page, limit |-> limit]
NoQuery == Query("", "", "", "", <<>>, <<>>)
Request(method, path, auth, query, body) ==
    [method |-> method, path |-> path, auth |-> auth, query |-> query, body |-> body]
NoReq == Request("", "", NoHeader, NoQuery, NoBody)
Response(status, body) == [status |-> status, body |-> body]
NoResp == Response(0, [error |-> ""])
H_error(msg) == [error |-> msg]
NoCtx == [set |-> FALSE, user_id |-> "", tenant_id |-> "", role |-> ""]

(***************************************************************************)
(* Storage.  The primary key of a new row is the next value of the         *)
(* table's sequence; rows are never deleted, so it is the row count + 1.   *)
(***************************************************************************)
\* An insert that writes the first row of the slice in every position.
CreateInBatch_FirstRowOnly(table, rows) ==
    table \o [i \in 1..Len(rows) |-> [rows[1] EXCEPT !.id = Len(table) + i]]

\* h.db.CreateInBatch(&events, 100) on a slice that fits one chunk: one
\* INSERT of all the rows.
CreateInBatch(table, rows) ==
    table \o [i \in 1..Len(rows) |-> [rows[i] EXCEPT !.id = Len(table) + i]]

\* A dispatch that hands the detection pass every stored row.
Inserted_WholeTable(table, rows) == CreateInBatch(table, rows)

\* The rows of `rows` as the handler holds them after the insert.
Inserted(table, rows) == SubSeq(CreateInBatch(table, rows), Len(table) + 1,
                                Len(table) + Len(rows))

\* The goroutine `go h.processEventsForAlerts(events)` starts.  panicked: a
\* panic was raised in it; nothing in the goroutine recovers one.
NewPass(batch) == [batch |-> batch, ei |-> 1, ci |-> 1, calls |-> <<>>,
                   panicked |-> FALSE]

\* A panic that no deferred call recovers ends the whole process: the Go
\* runtime exits, and with it the router and every goroutine.
Down == \E p \in 1..Len(passes) : passes[p].panicked

\* json.Marshal of a stored Event: the primary key is tagged json:"-".
EventJSON(row) ==
    [tenant_id |-> row.tenant_id, host_id |-> row.host_id, user_id |-> row.user_id,
     event_id |-> row.event_id, proc |-> row.proc, file |-> row.file]
\* The JSON array of a slice of events.
EventsJSON(rows) == [i \in 1..Len(rows) |-> EventJSON(rows[i])]

\* A handler that starts the goroutine before the insert, on the rows as
\* decoded.
IngestEvents_DispatchFirst(body) ==
    /\ LET bind == ShouldBindJSON(body) IN
       IF bind.err
       THEN /\ resp' = Response(400, H_error("Invalid JSON format"))
            /\ UNCHANGED <<events, passes>>
       ELSE /\ passes' = Append(passes, NewPass(bind.events))
            /\ IF ~dbUp
               THEN /\ resp' = Response(500, H_error("Failed to process events"))
                    /\ UNCHANGED events
               ELSE /\ events' = CreateInBatch(events, bind.events)
                    /\ resp' = Response(200, [status |-> "ok",
                                              count |-> Len(bind.events)])
    /\ UNCHANGED alerts

\* EventHandler.IngestEvents: the handler's effect on the tables, the
\* detection goroutines and the response.
IngestEvents(body) ==
    /\ LET bind == ShouldBindJSON(body) IN
       IF bind.err
       THEN /\ resp' = Response(400, H_error("Invalid JSON format"))
            /\ UNCHANGED <<events, passes>>
       ELSE IF ~dbUp
       THEN /\ resp' = Response(500, H_error("Failed to process events"))
            /\ UNCHANGED <<events, passes>>
       ELSE /\ events' = CreateInBatch(events, bind.events)
            /\ passes' = Append(passes, NewPass(Inserted(events, bind.events)))
            /\ resp' = Response(200, [status |-> "ok", count |-> Len(bind.events)])
    /\ UNCHANGED alerts

\* A POST /v1/events request served by EventHandler.IngestEvents.
PostEvents(body) ==
    /\ ~Down
    /\ req' = Request("POST", "/v1/events", NoHeader, NoQuery, body)
    /\ handler' = "IngestEvents"
    /\ ctx' = NoCtx
    /\ IngestEvents(body)
    /\ UNCHANGED <<dbUp, rules, sent>>

(***************************************************************************)
(* Queries.  The filters on event type and on the timestamp range are not  *)
(* modelled: the events of the model carry neither.                        *)
(***************************************************************************)
\* strconv.Atoi(c.DefaultQuery(name, default)) for a numeric parameter.
AtoiDefault(param, default) == IF param = <<>> THEN default ELSE param[1]

\* query.Offset(offset).Limit(limit) on the selected rows.
OffsetLimit(rows, offset, limit) ==
    LET rest == IF offset > 0 THEN SubSeq(rows, offset + 1, Len(rows)) ELSE rows
    IN IF limit >= 0 /\ limit < Len(rest) THEN SubSeq(rest, 1, limit) ELSE rest

Reverse(s) == [i \in 1..Len(s) |-> s[Len(s) + 1 - i]]

\* The rows GetEvents selects: the Where clauses come from the query string.
SelectEvents(table, query) ==
    LET page == AtoiDefault(query.page, 1)
        limit == AtoiDefault(query.limit, 50)
        match(r) == /\ (query.tenant_id # "" => r.tenant_id = query.tenant_id)
                    /\ (query.host_id # "" => r.host_id = query.host_id)
    IN OffsetLimit(SelectSeq(table, match), (page - 1) * limit, limit)

\* The rows GetAlerts selects, newest first.
SelectAlerts(table, query) ==
    LET page == AtoiDefault(query.page, 1)
        limit == AtoiDefault(query.limit, 50)
        match(r) == /\ (query.tenant_id # "" => r.tenant_id = query.tenant_id)
                    /\ (query.status # "" => r.status = query.status)
                    /\ (query.severity # "" => r.severity = query.severity)
    IN OffsetLimit(Reverse(SelectSeq(table, match)), (page - 1) * limit, limit)

\* EventHandler.GetEvents
GetEvents(query) ==
    /\ resp' = IF dbUp
               THEN Response(200, [events |-> EventsJSON(SelectEvents(events, query)),
                                   page |-> AtoiDefault(query.page, 1),
                                   limit |-> AtoiDefault(query.limit, 50)])
               ELSE Response(500, H_error("Failed to query events"))
    /\ UNCHANGED <<events, alerts, passes>>

\* EventHandler.GetAlerts
GetAlerts(query) ==
    /\ resp' = IF dbUp
               THEN Response(200, [alerts |-> SelectAlerts(alerts, query),
                                   page |-> AtoiDefault(query.page, 1),
                                   limit |-> AtoiDefault(query.limit, 50)])
               ELSE Response(500, H_error("Failed to query alerts"))
    /\ UNCHANGED <<events, alerts, passes>>

(***************************************************************************)
(* AuthMiddleware.                                                         *)
(***************************************************************************)
\* The header as a string: the characters before the JWT, and the JWT.
HeaderString(h) == [lead |-> Chars(h.scheme), jwt |-> h.jwt]

\* strings.TrimPrefix(s, prefix) on a header string.
TrimPrefix(s, prefix) ==
    LET b == Chars(prefix)
    IN IF Len(s.lead) >= Len(b) /\ SubSeq(s.lead, 1, Len(b)) = b
       THEN [s EXCEPT !.lead = SubSeq(s.lead, Len(b) + 1, Len(s.lead))]
       ELSE s

\* jwt.ParseWithClaims(tokenString, claims, keyFunc): err == nil && token.Valid
ParseWithClaims(tokenString) ==
    /\ tokenString.lead = <<>>
    /\ tokenString.jwt # <<>>
    /\ tokenString.jwt[1].wellformed
    /\ tokenString.jwt[1].signed
    /\ ~tokenString.jwt[1].expired

\* A middleware that takes the token as it is when the prefix is missing.
AuthMiddleware_NoPrefixCheck(authHeader) ==
    LET tokenString == TrimPrefix(HeaderString(authHeader), "Bearer ")
    IN IF HeaderString(authHeader) = [lead |-> <<>>, jwt |-> <<>>]
       THEN [abort |-> TRUE, ctx |-> NoCtx,
             resp |-> Response(401, H_error("Authorization header required"))]
       ELSE IF ~ParseWithClaims(tokenString)
       THEN [abort |-> TRUE, ctx |-> NoCtx,
             resp |-> Response(401, H_error("Invalid token"))]
       ELSE [abort |-> FALSE, resp |-> NoResp,
             ctx |-> [set |-> TRUE, user_id |-> tokenString.jwt[1].user_id,
                      tenant_id |-> tokenString.jwt[1].tenant_id,
                      role |-> tokenString.jwt[1].role]]

\* AuthMiddleware: abort with 401, or set the context keys and call Next.
AuthMiddleware(authHeader) ==
    LET tokenString == TrimPrefix(HeaderString(authHeader), "Bearer ")
    IN IF HeaderString(authHeader) = [lead |-> <<>>, jwt |-> <<>>]
       THEN [abort |-> TRUE, ctx |-> NoCtx,
             resp |-> Response(401, H_error("Authorization header required"))]
       ELSE IF tokenString = HeaderString(authHeader)
       THEN [abort |-> TRUE, ctx |-> NoCtx,
             resp |-> Response(401, H_error("Bearer token required"))]
       ELSE IF ~ParseWithClaims(tokenString)
       THEN [abort |-> TRUE, ctx |-> NoCtx,
             resp |-> Response(401, H_error("Invalid token"))]
       ELSE [abort |-> FALSE, resp |-> NoResp,
             ctx |-> [set |-> TRUE, user_id |-> tokenString.jwt[1].user_id,
                      tenant_id |-> tokenString.jwt[1].tenant_id,
                      role |-> tokenString.jwt[1].role]]

\* GET /v1/events behind AuthMiddleware.
ProtectedGetEvents(authHeader, query) ==
    /\ ~Down
    /\ req' = Request("GET", "/v1/events", authHeader, query, NoBody)
    /\ LET auth == AuthMiddleware(authHeader)
       IN IF auth.abort
          THEN /\ resp' = auth.resp
               /\ ctx' = NoCtx
               /\ handler' = ""
               /\ UNCHANGED <<events, alerts, passes>>
          ELSE /\ ctx' = auth.ctx
               /\ handler' = "GetEvents"
               /\ GetEvents(query)
    /\ UNCHANGED <<dbUp, rules, sent>>

\* GET /v1/alerts behind AuthMiddleware.
ProtectedGetAlerts(authHeader, query) ==
    /\ ~Down
    /\ req' = Request("GET", "/v1/alerts", authHeader, query, NoBody)
    /\ LET auth == AuthMiddleware(authHeader)
       IN IF auth.abort
          THEN /\ resp' = auth.resp
               /\ ctx' = NoCtx
               /\ handler' = ""
               /\ UNCHANGED <<events, alerts, passes>>
          ELSE /\ ctx' = auth.ctx
               /\ handler' = "GetAlerts"
               /\ GetAlerts(query)
    /\ UNCHANGED <<dbUp, rules, sent>>

(***************************************************************************)
(* The credentials and queries of the API runs.                            *)
(***************************************************************************)
TokT1 == JWT("u1", "t1", "analyst", TRUE, TRUE, FALSE)
TokT2 == JWT("u2", "t2", "admin", TRUE, TRUE, FALSE)
TokForged == JWT("u1", "t1", "admin", TRUE, FALSE, FALSE)
TokExpired == JWT("u1", "t1", "analyst", TRUE, TRUE, TRUE)
TokGarbled == JWT("", "", "", FALSE, FALSE, FALSE)
ValidHeaders == {Header("Bearer ", TokT1), Header("Bearer ", TokT2)}
InvalidHeaders ==
    {NoHeader, Header("", TokT1), Header("Basic ", TokT1), Header("bearer ", TokT1),
     Header("Bearer", TokT1), Header("Bearer ", <<>>), Header("Bearer ", TokForged),
     Header("Bearer ", TokExpired), Header("Bearer ", TokGarbled)}
Headers == ValidHeaders \cup InvalidHeaders
\* Every tenant and host filter on the first page, one second page of one
\* row, and limit=-1.
EventQueries ==
    {Query(t, h, "", "", <<>>, <<>>) : t \in {"", "t1", "t2"}, h \in {"", "h1"}}
        \cup {Query("", "", "", "", <<2>>, <<1>>), Query("", "", "", "", <<>>, <<-1>>)}
\* Every tenant and severity filter on the first page, a status filter, one
\* second page of one row, and limit=-1.
AlertQueries ==
    {Query(t, "", "", sv, <<>>, <<>>) : t \in {"", "t1", "t2"}, sv \in {"", "high"}}
        \cup {Query("", "", "open", "", <<>>, <<>>), Query("", "", "", "", <<2>>, <<1>>),
              Query("", "", "", "", <<>>, <<-1>>)}
\* A valid credential with every query; an invalid one with the plain query.
EventRequests == (ValidHeaders \X EventQueries) \cup (InvalidHeaders \X {NoQuery})
AlertRequests == (ValidHeaders \X AlertQueries) \cup (InvalidHeaders \X {NoQuery})
\* The batches ingested in the API runs: two tenants in one batch, one
\* event of one tenant, and a body that is refused.
ApiBodies == {Body("array", <<EvBoth, EvCurl>>), Body("array", <<EvQuiet>>),
              Body("garbage", <<>>)}

(***************************************************************************)
(* Detection: processEventsForAlerts, one goroutine per ingested batch.    *)
(* A pass is at event ei of its batch and at argv token ci of that event;  *)
(* ci past the last token (or no process descriptor) is the file check,    *)
(* which ends the event.  calls is what the pass has logged: one entry     *)
(* per createAlert call, with the index of the event it was made for and   *)
(* whether the insert succeeded.                                           *)
(***************************************************************************)
suspiciousCmds == <<"netcat", "ncat", "wget", "curl", "scp", "rclone">>

TitleTransfer == "Suspicious data transfer tool detected"
TitleLargeFile == "Large file operation detected"

\* The inner loop over suspiciousCmds for one argv token: the first hit
\* creates an alert and leaves the loop.
TokenMatches(cmd) ==
    \E k \in 1..Len(suspiciousCmds) : Contains(cmd, suspiciousCmds[k])

\* The threshold test with >= in place of >.
LargeFile_AtLeast(event) ==
    /\ event.file # <<>>
    /\ event.file[1].size # <<>>
    /\ event.file[1].size[1] >= 100 * 1024 * 1024

\* event.File != nil && event.File.Size != nil && *event.File.Size > 100*1024*1024
LargeFile(event) ==
    /\ event.file # <<>>
    /\ event.file[1].size # <<>>
    /\ event.file[1].size[1] > 100 * 1024 * 1024

\* A createAlert that fills the entity map the wrong way round.
createAlert_SwappedEntities(table, event, title, severity) ==
    LET alert == [id |-> Len(table) + 1, severity |-> severity, title |-> title,
                  tenant_id |-> event.tenant_id, rule_id |-> "RULE_AUTO",
                  rule_version |-> "1.0", ueba_score |-> 75,
                  entities |-> [user |-> event.host_id, host |-> event.user_id],
                  evidence |-> <<event.event_id>>, status |-> "open",
                  assignee |-> <<>>, resolution |-> <<>>]
    IN IF dbUp THEN Append(table, alert) ELSE table

\* A createAlert that repeats a failed insert until the row is stored.
createAlert_RetryUntilStored(table, event, title, severity) ==
    LET alert == [id |-> Len(table) + 1, severity |-> severity, title |-> title,
                  tenant_id |-> event.tenant_id, rule_id |-> "RULE_AUTO",
                  rule_version |-> "1.0", ueba_score |-> 75,
                  entities |-> [user |-> event.user_id, host |-> event.host_id],
                  evidence |-> <<event.event_id>>, status |-> "open",
                  assignee |-> <<>>, resolution |-> <<>>]
    IN Append(table, alert)

\* A createAlert that drops an alert when the table already holds one with
\* the same title for the same tenant and event id.
createAlert_Dedup(table, event, title, severity) ==
    LET alert == [id |-> Len(table) + 1, severity |-> severity, title |-> title,
                  tenant_id |-> event.tenant_id, rule_id |-> "RULE_AUTO",
                  rule_version |-> "1.0", ueba_score |-> 75,
                  entities |-> [user |-> event.user_id, host |-> event.host_id],
                  evidence |-> <<event.event_id>>, status |-> "open",
                  assignee |-> <<>>, resolution |-> <<>>]
        same(r) == /\ r.title = title
                   /\ r.tenant_id = event.tenant_id
                   /\ r.evidence = <<event.event_id>>
    IN IF dbUp /\ SelectSeq(table, same) = <<>> THEN Append(table, alert) ELSE table

\* A createAlert that saves under the key of the newest alert of the same
\* tenant when there is one: an update in place of an insert.
createAlert_SaveOverNewest(table, event, title, severity) ==
    LET alert == [id |-> Len(table) + 1, severity |-> severity, title |-> title,
                  tenant_id |-> event.tenant_id, rule_id |-> "RULE_AUTO",
                  rule_version |-> "1.0", ueba_score |-> 75,
                  entities |-> [user |-> event.user_id, host |-> event.host_id],
                  evidence |-> <<event.event_id>>, status |-> "open",
                  assignee |-> <<>>, resolution |-> <<>>]
    IN IF ~dbUp THEN table
       ELSE IF table # <<>> /\ table[Len(table)].tenant_id # event.tenant_id
       THEN [table EXCEPT ![Len(table)] = [alert EXCEPT !.id = Len(table)]]
       ELSE Append(table, alert)

\* A createAlert that closes the earlier alerts about the same event id.
createAlert_ClosesEarlier(table, event, title, severity) ==
    LET alert == [id |-> Len(table) + 1, severity |-> severity, title |-> title,
                  tenant_id |-> event.tenant_id, rule_id |-> "RULE_AUTO",
                  rule_version |-> "1.0", ueba_score |-> 75,
                  entities |-> [user |-> event.user_id, host |-> event.host_id],
                  evidence |-> <<event.event_id>>, status |-> "open",
                  assignee |-> <<>>, resolution |-> <<>>]
        closed == [k \in 1..Len(table) |->
                     IF table[k].evidence = <<event.event_id>>
                     THEN [table[k] EXCEPT !.status = "closed"] ELSE table[k]]
    IN IF dbUp THEN Append(closed, alert) ELSE table

\* createAlert(event, title, severity): the alerts table after the call.
\* The Alert is built from the event and inserted with h.db.Create, which
\* sets its primary key; a failed insert is logged and otherwise ignored.
createAlert(table, event, title, severity) ==
    LET alert == [id |-> Len(table) + 1, severity |-> severity, title |-> title,
                  tenant_id |-> event.tenant_id, rule_id |-> "RULE_AUTO",
                  rule_version |-> "1.0", ueba_score |-> 75,
                  entities |-> [user |-> event.user_id, host |-> event.host_id],
                  evidence |-> <<event.event_id>>, status |-> "open",
                  assignee |-> <<>>, resolution |-> <<>>]
    IN IF dbUp THEN Append(table, alert) ELSE table

\* The line createAlert logs: "Created alert" or "Failed to create alert".
Logged(pass, title, severity) ==
    [ev |-> pass.ei, title |-> title, severity |-> severity, ok |-> dbUp]

\* A pass that returns after its first alert.
Finished_AfterFirstAlert(pass) == pass.ei > Len(pass.batch) \/ pass.calls # <<>>

Finished(pass) == pass.ei > Len(pass.batch)
AtToken(pass) ==
    /\ ~Finished(pass)
    /\ pass.batch[pass.ei].proc # <<>>
    /\ pass.ci <= Len(pass.batch[pass.ei].proc[1].cmd)

\* A scan of the argv that ends at its first matching token.
DetectToken_StopsAtFirstHit(p) ==
    /\ p \in 1..Len(passes)
    /\ ~Down
    /\ AtToken(passes[p])
    /\ LET pass == passes[p]
           event == pass.batch[pass.ei]
       IN IF TokenMatches(event.proc[1].cmd[pass.ci])
          THEN /\ alerts' = createAlert(alerts, event, TitleTransfer, "high")
               /\ passes' = [passes EXCEPT
                     ![p].calls = Append(@, Logged(pass, TitleTransfer, "high")),
                     ![p].ci = Len(event.proc[1].cmd) + 1]
          ELSE /\ passes' = [passes EXCEPT ![p].ci = @ + 1]
               /\ UNCHANGED alerts
    /\ UNCHANGED <<events, dbUp, req, resp, ctx, handler, rules, sent>>

\* One argv token of the current event.
DetectToken(p) ==
    /\ p \in 1..Len(passes)
    /\ ~Down
    /\ AtToken(passes[p])
    /\ LET pass == passes[p]
           event == pass.batch[pass.ei]
       IN IF TokenMatches(event.proc[1].cmd[pass.ci])
          THEN /\ alerts' = createAlert(alerts, event, TitleTransfer, "high")
               /\ passes' = [passes EXCEPT
                     ![p].calls = Append(@, Logged(pass, TitleTransfer, "high")),
                     ![p].ci = @ + 1]
          ELSE /\ passes' = [passes EXCEPT ![p].ci = @ + 1]
               /\ UNCHANGED alerts
    /\ UNCHANGED <<events, dbUp, req, resp, ctx, handler, rules, sent>>

\* The file check of the current event, then on to the next event.
DetectFile(p) ==
    /\ p \in 1..Len(passes)
    /\ ~Down
    /\ ~Finished(passes[p])
    /\ ~AtToken(passes[p])
    /\ LET pass == passes[p]
           event == pass.batch[pass.ei]
       IN IF LargeFile(event)
          THEN /\ alerts' = createAlert(alerts, event, TitleLargeFile, "medium")
               /\ passes' = [passes EXCEPT
                     ![p].calls = Append(@, Logged(pass, TitleLargeFile, "medium")),
                     ![p].ei = @ + 1, ![p].ci = 1]
          ELSE /\ passes' = [passes EXCEPT ![p].ei = @ + 1, ![p].ci = 1]
               /\ UNCHANGED alerts
    /\ UNCHANGED <<events, dbUp, req, resp, ctx, handler, rules, sent>>

\* A panic raised under createAlert (in h.db.Create or in the logger) while
\* pass p evaluates its current event.  processEventsForAlerts has no
\* deferred recover, and neither has anything above it on the goroutine's
\* stack.
Panic(p) ==
    /\ p \in 1..Len(passes)
    /\ ~Down
    /\ ~Finished(passes[p])
    /\ LET pass == passes[p]
           event == pass.batch[pass.ei]
       IN IF AtToken(pass) THEN TokenMatches(event.proc[1].cmd[pass.ci])
          ELSE LargeFile(event)
    /\ passes' = [passes EXCEPT ![p].panicked = TRUE]
    /\ UNCHANGED <<events, alerts, dbUp, req, resp, ctx, handler, rules, sent>>

(***************************************************************************)
(* The storage fails and recovers on its own.                              *)
(***************************************************************************)
StorageFlips ==
    /\ dbUp' = ~dbUp
    /\ UNCHANGED <<events, alerts, passes, req, resp, ctx, handler, rules, sent>>

Init ==
    /\ events = <<>>
    /\ alerts = <<>>
    /\ passes = <<>>
    /\ dbUp = TRUE
    /\ req = NoReq
    /\ resp = NoResp
    /\ ctx = NoCtx
    /\ handler = ""
    /\ rules = <<>>
    /\ sent = 0

Next ==
    \/ Len(passes) < MaxIngests /\ \E body \in Bodies : PostEvents(body)
    \/ \E p \in 1..Len(passes) : DetectToken(p)
    \/ \E p \in 1..Len(passes) : DetectFile(p)
    \/ StorageFlips

Spec == Init /\ [][Next]_vars

RECURSIVE processEventsForAlerts(_, _, _, _)
\* processEventsForAlerts(events) from event ei and token ci on, with no
\* other writer of the alerts table: the table when the function returns.
processEventsForAlerts(batch, ei, ci, table) ==
    IF ei > Len(batch) THEN table
    ELSE LET event == batch[ei]
         IN IF event.proc # <<>> /\ ci <= Len(event.proc[1].cmd)
            THEN processEventsForAlerts(batch, ei, ci + 1,
                     IF TokenMatches(event.proc[1].cmd[ci])
                     THEN createAlert(table, event, TitleTransfer, "high")
                     ELSE table)
            ELSE processEventsForAlerts(batch, ei + 1, 1,
                     IF LargeFile(event)
                     THEN createAlert(table, event, TitleLargeFile, "medium")
                     ELSE table)

(***************************************************************************)
(* The repeat runs: the same triggering events ingested again, within one  *)
(* batch and across batches, and the detection passes interleaved.  The    *)
(* database stays reachable.                                               *)
(***************************************************************************)
EvTwoTools == Ev("t1", "h1", "u1", "e4", Proc(<<"wget", "/curl">>), NoFile)
\* A token that matches nothing, a token that contains two vocabulary
\* words, and a token that is one.
EvChain == Ev("t1", "h1", "u1", "e5", Proc(<<"ls", "/opt/netcat/ncat", "curl">>), NoFile)
RepeatPalette == {EvCurl, EvBoth, EvTwoTools, EvChain}
RepeatBodies == {Body("array", <<EvCurl>>), Body("array", <<EvCurl, EvCurl>>),
                 Body("array", <<EvBoth>>), Body("array", <<EvTwoTools>>),
                 Body("array", <<EvChain>>)}

NextRepeat ==
    \/ Len(passes) < MaxIngests /\ \E body \in RepeatBodies : PostEvents(body)
    \/ \E p \in 1..Len(passes) : DetectToken(p)
    \/ \E p \in 1..Len(passes) : DetectFile(p)

SpecRepeat == Init /\ [][NextRepeat]_vars

(***************************************************************************)
(* The rule runs: one batch drawn from RulePalette, and its detection.    *)
(***************************************************************************)
NextRules ==
    \/ handler = "" /\ \E body \in RuleBodies : PostEvents(body)
    \/ \E p \in 1..Len(passes) : DetectToken(p)
    \/ \E p \in 1..Len(passes) : DetectFile(p)
    \/ StorageFlips

SpecRules == Init /\ [][NextRules]_vars

(***************************************************************************)
(* The fault runs: the pipeline runs, with panics in the detection         *)
(* goroutines.                                                             *)
(***************************************************************************)
NextFault ==
    \/ Len(passes) < MaxIngests /\ \E body \in Bodies : PostEvents(body)
    \/ \E p \in 1..Len(passes) : DetectToken(p)
    \/ \E p \in 1..Len(passes) : DetectFile(p)
    \/ \E p \in 1..Len(passes) : Panic(p)
    \/ StorageFlips

SpecFault == Init /\ [][NextFault]_vars

(***************************************************************************)
(* The API runs: one ingested batch, its detection, and queries that pass  *)
(* through AuthMiddleware.                                                 *)
(***************************************************************************)
NextApi ==
    \/ passes = <<>> /\ \E body \in ApiBodies : PostEvents(body)
    \/ \E p \in 1..Len(passes) : DetectToken(p)
    \/ \E p \in 1..Len(passes) : DetectFile(p)
    \/ StorageFlips
    \/ \E r \in EventRequests : ProtectedGetEvents(r[1], r[2])
    \/ \E r \in AlertRequests : ProtectedGetAlerts(r[1], r[2])

SpecApi == Init /\ [][NextApi]_vars

(***************************************************************************)
(* The alert operations.  ExecuteAlertAction is the handler of             *)
(* models.go.  The update operation (PUT /v1/alerts/:id, which the         *)
(* end-to-end tests call) is not among the handlers of models.go; it is    *)
(* modelled from section 4.4 of the specification.                         *)
(***************************************************************************)
\* The body of an action request: an object with an action name, an object
\* without one, or text that is not JSON.
ActionBody(action) == Body("object", <<[action |-> action]>>)
ActionBodies == {ActionBody("isolate_host"), ActionBody(""), Body("garbage", <<>>)}

\* A binding that takes an object without an action name.
BindAction_ActionOptional(body) ==
    IF body.kind = "object" /\ body.items # <<>>
    THEN [err |-> FALSE, action |-> body.items[1].action]
    ELSE [err |-> TRUE, action |-> ""]

\* c.ShouldBindJSON(&actionReq): Action is tagged binding:"required".
BindAction(body) ==
    IF body.kind = "object" /\ body.items # <<>> /\ body.items[1].action # ""
    THEN [err |-> FALSE, action |-> body.items[1].action]
    ELSE [err |-> TRUE, action |-> ""]

\* EventHandler.ExecuteAlertAction: h.db.First(&alert, alertID) fails when
\* no row has that key and when the storage fails; both are answered 404.
\* Nothing is written.
ExecuteAlertAction(id, body) ==
    /\ ~Down
    /\ req' = Request("POST", "/v1/alerts/" \o ToString(id) \o "/actions",
                      NoHeader, NoQuery, body)
    /\ handler' = "ExecuteAlertAction"
    /\ ctx' = NoCtx
    /\ resp' = IF BindAction(body).err
               THEN Response(400, H_error("Invalid request"))
               ELSE IF ~dbUp \/ id \notin 1..Len(alerts)
               THEN Response(404, H_error("Alert not found"))
               ELSE Response(200, [status |-> "action_executed", alert_id |-> id,
                                   action |-> BindAction(body).action])
    /\ UNCHANGED <<events, alerts, passes, dbUp, rules, sent>>

\* The status transitions of section 4.4.
Transitions == {<<"open", "acknowledged">>, <<"acknowledged", "resolved">>,
                <<"open", "closed">>}

\* An update request: the status asked for, the assignee and the resolution
\* text; "" is a field the request does not carry.
AlertUpdate(status, assignee, resolution) ==
    [status |-> status, assignee |-> assignee, resolution |-> resolution]

\* The alert after an accepted update.
Updated(alert, upd) ==
    [alert EXCEPT !.status = IF upd.status = "" THEN @ ELSE upd.status,
                  !.assignee = IF upd.assignee = "" THEN @ ELSE <<upd.assignee>>,
                  !.resolution = IF upd.resolution = "" THEN @ ELSE <<upd.resolution>>]

\* An update that writes whatever status it is asked for.
UpdateAlert_AnyTransition(id, upd) ==
    /\ ~Down
    /\ req' = Request("PUT", "/v1/alerts/" \o ToString(id), NoHeader, NoQuery,
                      Body("object", <<upd>>))
    /\ handler' = "UpdateAlert"
    /\ ctx' = NoCtx
    /\ IF id \notin 1..Len(alerts)
       THEN /\ resp' = Response(404, H_error("Alert not found"))
            /\ UNCHANGED alerts
       ELSE /\ alerts' = [alerts EXCEPT ![id] = Updated(@, upd)]
            /\ resp' = Response(200, Updated(alerts[id], upd))
    /\ UNCHANGED <<events, passes, dbUp, rules, sent>>

\* An update that refuses the status the alert already has.
UpdateAlert_RepeatRefused(id, upd) ==
    /\ ~Down
    /\ req' = Request("PUT", "/v1/alerts/" \o ToString(id), NoHeader, NoQuery,
                      Body("object", <<upd>>))
    /\ handler' = "UpdateAlert"
    /\ ctx' = NoCtx
    /\ IF id \notin 1..Len(alerts)
       THEN /\ resp' = Response(404, H_error("Alert not found"))
            /\ UNCHANGED alerts
       ELSE IF upd.status # "" /\ <<alerts[id].status, upd.status>> \notin Transitions
       THEN /\ resp' = Response(400, H_error("Invalid status transition"))
            /\ UNCHANGED alerts
       ELSE /\ alerts' = [alerts EXCEPT ![id] = Updated(@, upd)]
            /\ resp' = Response(200, Updated(alerts[id], upd))
    /\ UNCHANGED <<events, passes, dbUp, rules, sent>>

\* The update operation of the Alert Store: an unknown id is answered 404;
\* a request for the status the alert already has is answered 200 and
\* changes nothing; a status change that is not a transition is refused;
\* any other update is written.
UpdateAlert(id, upd) ==
    /\ ~Down
    /\ req' = Request("PUT", "/v1/alerts/" \o ToString(id), NoHeader, NoQuery,
                      Body("object", <<upd>>))
    /\ handler' = "UpdateAlert"
    /\ ctx' = NoCtx
    /\ IF id \notin 1..Len(alerts)
       THEN /\ resp' = Response(404, H_error("Alert not found"))
            /\ UNCHANGED alerts
       ELSE IF upd.status = alerts[id].status
       THEN /\ resp' = Response(200, alerts[id])
            /\ UNCHANGED alerts
       ELSE IF upd.status # "" /\ <<alerts[id].status, upd.status>> \notin Transitions
       THEN /\ resp' = Response(400, H_error("Invalid status transition"))
            /\ UNCHANGED alerts
       ELSE /\ alerts' = [alerts EXCEPT ![id] = Updated(@, upd)]
            /\ resp' = Response(200, Updated(alerts[id], upd))
    /\ UNCHANGED <<events, passes, dbUp, rules, sent>>

\* The requests of the lifecycle runs: the steps of the end-to-end test
\* (acknowledge, assign, resolve), a resolve with another text, a close, a
\* reopen, on two alerts and on an id no alert has.
AlertUpdates ==
    {AlertUpdate("acknowledged", "", ""), AlertUpdate("", "analyst", ""),
     AlertUpdate("resolved", "", "false positive"),
     AlertUpdate("resolved", "", "duplicate"), AlertUpdate("closed", "", ""),
     AlertUpdate("open", "", "")}
AlertIds == {1, 2, 9}

NextAlerts ==
    \/ passes = <<>> /\ PostEvents(Body("array", <<EvBoth>>))
    \/ \E p \in 1..Len(passes) : DetectToken(p)
    \/ \E p \in 1..Len(passes) : DetectFile(p)
    \/ StorageFlips
    \/ \E id \in AlertIds : \E body \in ActionBodies : ExecuteAlertAction(id, body)
    \/ \E id \in AlertIds : \E upd \in AlertUpdates : UpdateAlert(id, upd)

SpecAlerts == Init /\ [][NextAlerts]_vars

(***************************************************************************)
(* Rate limiting.  TestRateLimiting sends 150 requests to GET /v1/alerts   *)
(* and expects the first 100 not to be answered 429.                       *)
(***************************************************************************)
RequestsPerMinute == 100

\* RateLimitMiddleware(requestsPerMinute): the handler it returns calls
\* c.Next() and nothing else.
RateLimitMiddleware(requestsPerMinute) == [abort |-> FALSE, resp |-> NoResp]

\* GET /v1/alerts behind RateLimitMiddleware and AuthMiddleware.
LimitedGetAlerts(authHeader) ==
    /\ ~Down
    /\ sent < MaxSent
    /\ sent' = sent + 1
    /\ req' = Request("GET", "/v1/alerts", authHeader, NoQuery, NoBody)
    /\ LET rate == RateLimitMiddleware(RequestsPerMinute)
           auth == AuthMiddleware(authHeader)
       IN IF rate.abort
          THEN /\ resp' = rate.resp
               /\ ctx' = NoCtx
               /\ handler' = ""
               /\ UNCHANGED <<events, alerts, passes>>
          ELSE IF auth.abort
          THEN /\ resp' = auth.resp
               /\ ctx' = NoCtx
               /\ handler' = ""
               /\ UNCHANGED <<events, alerts, passes>>
          ELSE /\ ctx' = auth.ctx
               /\ handler' = "GetAlerts"
               /\ GetAlerts(NoQuery)
    /\ UNCHANGED <<dbUp, rules>>

\* The credentials of the rate-limit runs: the one the test sends, and none.
RateHeaders == {Header("Bearer ", TokT1), NoHeader}

(***************************************************************************)
(* The rate-limit runs: one ingested batch, its detection, and requests to *)
(* the rate-limited route within one window.                               *)
(***************************************************************************)
NextRate ==
    \/ passes = <<>> /\ PostEvents(Body("array", <<EvBoth>>))
    \/ \E p \in 1..Len(passes) : DetectToken(p)
    \/ \E p \in 1..Len(passes) : DetectFile(p)
    \/ \E h \in RateHeaders : LimitedGetAlerts(h)

SpecRate == Init /\ [][NextRate]_vars

(***************************************************************************)
(* The rule store: GetRules and CreateRule.  Detection never reads it.     *)
(***************************************************************************)
\* The JSON object of a rule: name, enabled flag, severity and conditions
\* (a map with field, operator and value).
RuleObject(name, enabled, severity, conditions) ==
    Body("object", <<[name |-> name, enabled |-> enabled, severity |-> severity,
                      conditions |-> conditions]>>)
\* A rule that matches every event of host h1, enabled and disabled, and a
\* body that is not JSON.
HostRule == [field |-> "host_id", operator |-> "eq", value |-> "h1"]
RuleRequests == {RuleObject("host-h1", TRUE, "low", HostRule),
                 RuleObject("host-h1-off", FALSE, "low", HostRule),
                 Body("garbage", <<>>)}

\* A column tagged gorm:"default:...": a zero value is left out of the
\* INSERT and the column takes its default.
GormDefault(value, zero, default) == IF value = zero THEN default ELSE value

\* The row h.db.Create(&rule) stores.  ID is the fresh uuid; Enabled is
\* tagged gorm:"default:true".
RuleRow(table, obj) ==
    [id |-> "rule-" \o ToString(Len(table) + 1), name |-> obj.name,
     enabled |-> GormDefault(obj.enabled, FALSE, TRUE),
     severity |-> obj.severity, conditions |-> obj.conditions]

\* EventHandler.CreateRule
CreateRule(body) ==
    /\ ~Down
    /\ req' = Request("POST", "/v1/rules", NoHeader, NoQuery, body)
    /\ handler' = "CreateRule"
    /\ ctx' = NoCtx
    /\ IF body.kind # "object" \/ body.items = <<>>
       THEN /\ resp' = Response(400, H_error("Invalid rule format"))
            /\ UNCHANGED rules
       ELSE IF ~dbUp
       THEN /\ resp' = Response(500, H_error("Failed to create rule"))
            /\ UNCHANGED rules
       ELSE /\ rules' = Append(rules, RuleRow(rules, body.items[1]))
            /\ resp' = Response(201, RuleRow(rules, body.items[1]))
    /\ UNCHANGED <<events, alerts, passes, dbUp, sent>>

\* EventHandler.GetRules
GetRules ==
    /\ ~Down
    /\ req' = Request("GET", "/v1/rules", NoHeader, NoQuery, NoBody)
    /\ handler' = "GetRules"
    /\ ctx' = NoCtx
    /\ resp' = IF dbUp THEN Response(200, [rules |-> rules])
               ELSE Response(500, H_error("Failed to query rules"))
    /\ UNCHANGED <<events, alerts, passes, dbUp, rules, sent>>

\* The batch of the store runs: one event without a tenant id whose process
\* ran curl.
EvNoTenant == Ev("", "h1", "u1", "e3", Proc(<<"curl">>), NoFile)
StoreBodies == {Body("array", <<EvNoTenant>>), Body("garbage", <<>>)}

(***************************************************************************)
(* The store runs: ingestion, detection, rule creation, queries and alert  *)
(* actions on the three stores.                                            *)
(***************************************************************************)
NextStore ==
    \/ Len(passes) < MaxIngests /\ \E body \in StoreBodies : PostEvents(body)
    \/ \E p \in 1..Len(passes) : DetectToken(p)
    \/ \E p \in 1..Len(passes) : DetectFile(p)
    \/ StorageFlips
    \/ Len(rules) < MaxRules /\ \E body \in RuleRequests : CreateRule(body)
    \/ GetRules
    \/ ProtectedGetEvents(Header("Bearer ", TokT1), NoQuery)
    \/ ExecuteAlertAction(1, ActionBody("isolate_host"))

SpecStore == Init /\ [][NextStore]_vars

(***************************************************************************)
(* The router main.go wires: a CORS middleware and four inline handlers.   *)
(* No route passes through AuthMiddleware or reaches EventHandler.         *)
(***************************************************************************)
\* err.Error() of the failed ShouldBindJSON, which the handler echoes.
DecodeError(body) ==
    CASE body.kind = "object" ->
            "json: cannot unmarshal object into Go value of type []main.Event"
      [] body.kind = "badElement" ->
            "json: cannot unmarshal number into Go struct field Event.tenant_id of type string"
      [] body.kind = "garbage" -> "invalid character 'i' looking for beginning of value"
      [] OTHER -> "EOF"

\* One request served by the router of main().  No handler reads the
\* query string.
MainServe(method, path, authHeader, query, body) ==
    /\ req' = Request(method, path, authHeader, query, body)
    /\ ctx' = NoCtx
    /\ IF method = "OPTIONS"
       THEN /\ resp' = Response(204, [text |-> ""])
            /\ handler' = ""
       ELSE IF method = "POST" /\ path = "/v1/events"
       THEN /\ handler' = "main.postEvents"
            /\ resp' = IF ShouldBindJSON(body).err
                       THEN Response(400, H_error(DecodeError(body)))
                       ELSE Response(200, [status |-> "ok",
                                           count |-> Len(ShouldBindJSON(body).events)])
       ELSE IF method = "GET" /\ path = "/v1/events"
       THEN /\ handler' = "main.getEvents"
            /\ resp' = Response(200, [events |-> <<>>])
       ELSE IF method = "GET" /\ path = "/v1/alerts"
       THEN /\ handler' = "main.getAlerts"
            /\ resp' = Response(200, [alerts |-> <<>>])
       ELSE IF method = "GET" /\ path = "/health"
       THEN /\ handler' = "main.health"
            /\ resp' = Response(200, [status |-> "healthy", version |-> "1.0.0"])
       ELSE /\ handler' = ""
            /\ resp' = Response(404, [text |-> "404 page not found"])
    /\ UNCHANGED <<events, alerts, passes, dbUp, rules, sent>>

Methods == {"GET", "POST", "OPTIONS"}
Paths == {"/v1/events", "/v1/alerts", "/v1/alerts/1/actions", "/v1/rules", "/health"}
\* The batch of the end-to-end scenario: one event of tenant t1 on host
\* h1 whose process ran wget, and the query that follows it.
EvWget == Ev("t1", "h1", "", "", Proc(<<"wget", "http://evil">>), NoFile)
ScenarioBody == Body("array", <<EvWget>>)
ScenarioQuery == Query("t1", "", "", "", <<>>, <<>>)
MainRequests ==
    {<<m, p, h, NoQuery, NoBody>> : m \in Methods, p \in Paths, h \in Headers}
        \cup {<<"POST", "/v1/events", NoHeader, NoQuery, b>> :
                  b \in Bodies \cup {ScenarioBody}}
        \cup {<<"GET", "/v1/alerts", h, ScenarioQuery, NoBody>> : h \in Headers}

NextMain == \E r \in MainRequests : MainServe(r[1], r[2], r[3], r[4], r[5])

SpecMain == Init /\ [][NextMain]_vars

(***************************************************************************)
(* Ingestion.                                                              *)
(***************************************************************************)
WellFormed(body) == body.kind \in {"array", "null"}
Submitted(body) == IF body.kind = "array" THEN body.items ELSE <<>>

\* C1: a well-formed batch of N events submitted to IngestEvents while the
\* storage is healthy is answered 200 {status: "ok", count: N}, and the
\* rows a GetEvents query shows afterwards are the rows it showed before
\* followed by exactly the N submitted events.
C1_IngestCountsAndPersists ==
    [][\A body \in Bodies :
         (WellFormed(body) /\ dbUp /\ PostEvents(body)) =>
            /\ resp' = Response(200, [status |-> "ok", count |-> Len(Submitted(body))])
            /\ Len(events') = Len(events) + Len(Submitted(body))
            /\ EventsJSON(SelectEvents(events', NoQuery))
                 = EventsJSON(SelectEvents(events, NoQuery))
                      \o EventsJSON(Submitted(body))]_vars

\* A second batch of two events was acknowledged on top of stored rows.
C1_Witness ==
    /\ handler = "IngestEvents"
    /\ resp.status = 200
    /\ resp.body.count = 2
    /\ Len(events) = 4

C15_OnePassPerIngestedBatch ==
    [][\A body \in Bodies :
         PostEvents(body) =>
            IF resp'.status = 200
            THEN /\ Len(passes') = Len(passes) + 1
                 /\ SubSeq(passes', 1, Len(passes)) = passes
                 /\ LET pass == passes'[Len(passes')]
                    IN /\ pass.batch = SubSeq(events', Len(events) + 1, Len(events'))
                       /\ EventsJSON(pass.batch) = EventsJSON(Submitted(body))
                       /\ pass.ei = 1
                       /\ pass.ci = 1
                       /\ pass.calls = <<>>
            ELSE /\ resp'.status \in {400, 500}
                 /\ passes' = passes
                 /\ events' = events]_vars

\* A second batch, of two events, was acknowledged and has its own pass
\* over those two rows.
C15_Witness ==
    /\ handler = "IngestEvents"
    /\ resp = Response(200, [status |-> "ok", count |-> 2])
    /\ Len(events) = 3
    /\ Len(passes) = 2
    /\ passes[2].batch = SubSeq(events, 2, 3)

\* Every row of a batch is a row of the events table.
Persisted(batch, table) ==
    \A i \in 1..Len(batch) : \E e \in 1..Len(table) : table[e] = batch[i]

\* C16: when IngestEvents answers 200 every event of the batch is stored
\* and the handler has created no alert; whenever a detection pass takes a
\* step, every event of its batch is stored.
C16_PersistedBeforeAckAndDetection ==
    [][/\ \A body \in Bodies :
            (PostEvents(body) /\ resp'.status = 200) =>
               /\ Len(passes'[Len(passes')].batch) = Len(Submitted(body))
               /\ Persisted(passes'[Len(passes')].batch, events')
               /\ alerts' = alerts
       /\ \A p \in 1..Len(passes) :
            (DetectToken(p) \/ DetectFile(p)) => Persisted(passes[p].batch, events)]_vars

\* The 200 for a batch of two is the last response while the pass of that
\* batch has evaluated its first event only.
C16_Witness ==
    /\ handler = "IngestEvents"
    /\ resp = Response(200, [status |-> "ok", count |-> 2])
    /\ Len(passes) = 1
    /\ passes[1].ei = 2
    /\ Len(passes[1].batch) = 2
    /\ Len(alerts) > 0

\* The detection passes that have started and not finished.
InFlight == {p \in 1..Len(passes) : ~Finished(passes[p])}
\* A bound on the passes in flight that is below the number of batches
\* the runs ingest.
PoolSize == MaxIngests - 1

\* C17: the passes in flight at the same time never exceed the fixed
\* bound, however many batches are ingested and whenever they arrive.
C17_BoundedInFlight == Cardinality(InFlight) <= PoolSize

\* Every batch ingested has its own pass in flight: none waited.
C17_Witness ==
    /\ Len(passes) = MaxIngests
    /\ Cardinality(InFlight) = MaxIngests

\* C18: the scenario batch is answered 200 {status: "ok", count: 1}, and a
\* GET /v1/alerts?tenant_id=t1 served after that acknowledgement, when no
\* detection pass is left running, returns exactly one alert, whose
\* severity is high.
C18_ScenarioYieldsOneHighAlert ==
    [][/\ (req'.method = "POST" /\ req'.path = "/v1/events" /\ req'.body = ScenarioBody)
            => resp' = Response(200, [status |-> "ok", count |-> 1])
       /\ (/\ req.method = "POST" /\ req.path = "/v1/events" /\ req.body = ScenarioBody
           /\ resp.status = 200
           /\ InFlight = {}
           /\ req'.method = "GET" /\ req'.path = "/v1/alerts"
           /\ req'.query = ScenarioQuery)
            => /\ resp'.status = 200
               /\ Len(resp'.body.alerts) = 1
               /\ resp'.body.alerts[1].severity = "high"]_vars

\* The scenario batch was acknowledged with count 1 and the query for
\* tenant t1's alerts was then answered 200.
C18_Witness ==
    /\ req.method = "GET"
    /\ req.path = "/v1/alerts"
    /\ req.query = ScenarioQuery
    /\ handler = "main.getAlerts"
    /\ resp.status = 200

(***************************************************************************)
(* The built-in rules, as the specification words them.                    *)
(***************************************************************************)
Vocabulary == {"netcat", "ncat", "wget", "curl", "scp", "rclone"}
HasTransferTool(e) ==
    /\ e.proc # <<>>
    /\ \E k \in 1..Len(e.proc[1].cmd) : \E w \in Vocabulary : Contains(e.proc[1].cmd[k], w)
HasLargeFile(e) ==
    /\ e.file # <<>>
    /\ e.file[1].size # <<>>
    /\ e.file[1].size[1] > 100 * 1024 * 1024

\* The createAlert calls pass made for event i of its batch with this title
\* and severity.
CallsFor(pass, i, title, severity) ==
    {k \in 1..Len(pass.calls) :
        /\ pass.calls[k].ev = i
        /\ pass.calls[k].title = title
        /\ pass.calls[k].severity = severity}
AllCallsFor(pass, i) == {k \in 1..Len(pass.calls) : pass.calls[k].ev = i}

\* C8: every evaluated event with a process descriptor and at least one
\* argv token containing a vocabulary word gets exactly one high-severity
\* "Suspicious data transfer tool detected" alert, however many tokens
\* match; any other event gets none.
C8_OneTransferAlertPerEvent ==
    \A p \in 1..Len(passes) : \A i \in 1..Len(passes[p].batch) :
        i < passes[p].ei =>
            Cardinality(CallsFor(passes[p], i, TitleTransfer, "high"))
                = IF HasTransferTool(passes[p].batch[i]) THEN 1 ELSE 0

\* C9: an evaluated event gets exactly one medium-severity "Large file
\* operation detected" alert if its file descriptor is present with a size
\* strictly above 100 MiB, and none otherwise.
C9_LargeFileThreshold ==
    \A p \in 1..Len(passes) : \A i \in 1..Len(passes[p].batch) :
        i < passes[p].ei =>
            /\ Cardinality(CallsFor(passes[p], i, TitleLargeFile, "medium"))
                 = IF HasLargeFile(passes[p].batch[i]) THEN 1 ELSE 0
            /\ \A k \in AllCallsFor(passes[p], i) :
                 passes[p].calls[k].title = TitleLargeFile
                    => passes[p].calls[k].severity = "medium"

\* A finished pass over a file at the threshold (no alert) and a file one
\* byte above it (one alert).
C9_Witness ==
    \E p \in 1..Len(passes) :
        /\ Finished(passes[p])
        /\ Len(passes[p].batch) = 2
        /\ passes[p].batch[1].file = File(100 * MiB)
        /\ passes[p].batch[2].file = File(100 * MiB + 1)
        /\ CallsFor(passes[p], 1, TitleLargeFile, "medium") = {}
        /\ CallsFor(passes[p], 2, TitleLargeFile, "medium") # {}

\* C10: every event of a batch is evaluated against both rules: an
\* evaluated event that matches a rule has that rule's alert whatever the
\* other rule or an earlier event did, and a pass stops only at the end of
\* its batch.
C10_AllRulesEveryEvent ==
    \A p \in 1..Len(passes) :
        /\ \A i \in 1..Len(passes[p].batch) :
              i < passes[p].ei =>
                 /\ HasTransferTool(passes[p].batch[i])
                       => CallsFor(passes[p], i, TitleTransfer, "high") # {}
                 /\ HasLargeFile(passes[p].batch[i])
                       => CallsFor(passes[p], i, TitleLargeFile, "medium") # {}
        /\ passes[p].ei <= Len(passes[p].batch)
              => ENABLED (DetectToken(p) \/ DetectFile(p))

\* A finished pass whose first event matched both rules and whose second
\* event matched both as well.
C10_Witness ==
    \E p \in 1..Len(passes) :
        /\ Finished(passes[p])
        /\ Len(passes[p].batch) = 2
        /\ \A i \in 1..2 :
              /\ HasTransferTool(passes[p].batch[i])
              /\ HasLargeFile(passes[p].batch[i])
              /\ CallsFor(passes[p], i, TitleTransfer, "high") # {}
              /\ CallsFor(passes[p], i, TitleLargeFile, "medium") # {}

\* An evaluated event with two matching argv tokens.
C8_Witness ==
    \E p \in 1..Len(passes) :
        /\ Finished(passes[p])
        /\ Len(passes[p].batch) >= 1
        /\ passes[p].batch[1].proc = Proc(<<"wget", "/curl">>)

(***************************************************************************)
(* The alerts detection creates.                                           *)
(***************************************************************************)
\* Pass p makes a createAlert call in its next step.
AboutToAlert(p) ==
    /\ p \in 1..Len(passes)
    /\ ~Finished(passes[p])
    /\ LET pass == passes[p]
           event == pass.batch[pass.ei]
       IN IF AtToken(pass) THEN TokenMatches(event.proc[1].cmd[pass.ci])
          ELSE LargeFile(event)

\* C11: every alert a detection step stores carries the tenant id of the
\* event that triggered it, entities {user: the event's user id, host: the
\* event's host id}, the one-element evidence list of that event's
\* event id, and status open.
C11_AlertCopiesTriggeringEvent ==
    [][\A p \in 1..Len(passes) :
         ((DetectToken(p) \/ DetectFile(p)) /\ alerts' # alerts) =>
            LET event == passes[p].batch[passes[p].ei]
                alert == alerts'[Len(alerts')]
            IN /\ AboutToAlert(p)
               /\ Len(alerts') = Len(alerts) + 1
               /\ SubSeq(alerts', 1, Len(alerts)) = alerts
               /\ alert.tenant_id = event.tenant_id
               /\ alert.entities = [user |-> event.user_id, host |-> event.host_id]
               /\ alert.evidence = <<event.event_id>>
               /\ alert.status = "open"]_vars

\* Alerts are stored for an event of tenant t1 and for one of tenant t2.
C11_Witness ==
    /\ \E i \in 1..Len(alerts) :
          alerts[i].tenant_id = "t1" /\ alerts[i].entities = [user |-> "u1", host |-> "h1"]
    /\ \E i \in 1..Len(alerts) :
          alerts[i].tenant_id = "t2" /\ alerts[i].entities = [user |-> "u2", host |-> "h2"]

\* C13: a fault raised while a pass evaluates one event does not end the
\* pass or the service: whenever events of a batch are still to be
\* evaluated their pass can go on, and the service still takes batches.
C13_FaultIsolated ==
    /\ \A p \in 1..Len(passes) :
          ~Finished(passes[p]) => ENABLED (DetectToken(p) \/ DetectFile(p))
    /\ Len(passes) < MaxIngests => ENABLED PostEvents(NoBody)

\* A fault was raised at the first event of a batch of two while a second
\* pass was running.
C13_Witness ==
    \E p, q \in 1..Len(passes) :
        /\ passes[p].panicked
        /\ passes[p].ei = 1
        /\ Len(passes[p].batch) = 2
        /\ q # p
        /\ ~Finished(passes[q])

\* The rule matches of event e as the engine finds them: one for each argv
\* token that contains a vocabulary word, one for a large file.
MatchCount(e) ==
    (IF e.proc = <<>> THEN 0
     ELSE Cardinality({k \in 1..Len(e.proc[1].cmd) :
                          \E w \in Vocabulary : Contains(e.proc[1].cmd[k], w)}))
        + (IF HasLargeFile(e) THEN 1 ELSE 0)

\* Every evaluated event has had one create attempt for each of its matches.
OneAttemptPerMatch(ps) ==
    \A q \in 1..Len(ps) : \A i \in 1..Len(ps[q].batch) :
        i < ps[q].ei => Cardinality(AllCallsFor(ps[q], i)) = MatchCount(ps[q].batch[i])

RECURSIVE StoredCalls(_, _)
\* The create attempts of the first n passes of ps that succeeded.
StoredCalls(ps, n) ==
    IF n = 0 THEN 0
    ELSE StoredCalls(ps, n - 1)
            + Cardinality({k \in 1..Len(ps[n].calls) : ps[n].calls[k].ok})

\* C14: a detection step whose alert insert fails stores nothing, makes
\* that one attempt only and moves on to the next token or event; the
\* alerts stored are exactly the attempts that succeeded, every match of
\* every evaluated event was attempted once, failed or not, and no
\* detection step touches the response the ingesting client received.
C14_FailedAlertDroppedAlone ==
    [][\A p \in 1..Len(passes) :
         (DetectToken(p) \/ DetectFile(p)) =>
            /\ resp' = resp
            /\ events' = events
            /\ (AboutToAlert(p) /\ ~dbUp) =>
                  /\ alerts' = alerts
                  /\ Len(passes'[p].calls) = Len(passes[p].calls) + 1
                  /\ ~passes'[p].calls[Len(passes'[p].calls)].ok
                  /\ \/ passes'[p].ei > passes[p].ei
                     \/ passes'[p].ei = passes[p].ei /\ passes'[p].ci > passes[p].ci
            /\ OneAttemptPerMatch(passes')
            /\ Len(alerts') = StoredCalls(passes', Len(passes'))]_vars

\* A finished pass over two events: the first had two matching tokens and
\* a large file, its first insert failed and its later ones were stored;
\* the second event's alert was stored too, and the client's 200 stands.
C14_Witness ==
    \E p \in 1..Len(passes) :
        /\ Finished(passes[p])
        /\ Len(passes[p].batch) = 2
        /\ Len(passes[p].calls) = 4
        /\ ~passes[p].calls[1].ok
        /\ passes[p].calls[2].ok
        /\ passes[p].calls[3].ok
        /\ passes[p].calls[4].ok
        /\ passes[p].calls[4].ev = 2
        /\ Len(alerts) = 3
        /\ resp = Response(200, [status |-> "ok", count |-> 2])

\* C12: for every stored alert and every stored event whose event id is in
\* the alert's evidence list, the alert and the event have the same tenant
\* id, also when two tenants send events with the same event id.
C12_EvidenceSameTenant ==
    \A a \in 1..Len(alerts) : \A e \in 1..Len(events) :
        (\E k \in 1..Len(alerts[a].evidence) :
            alerts[a].evidence[k] = events[e].event_id)
                => alerts[a].tenant_id = events[e].tenant_id

\* Tenants t1 and t2 have both stored an event with event id e1, and an
\* alert is stored whose evidence is that id.
C12_Witness ==
    /\ \E e \in 1..Len(events) :
          events[e].tenant_id = "t1" /\ events[e].event_id = "e1"
    /\ \E e \in 1..Len(events) :
          events[e].tenant_id = "t2" /\ events[e].event_id = "e1"
    /\ \E a \in 1..Len(alerts) : alerts[a].evidence = <<"e1">>

(***************************************************************************)
(* The alert lifecycle.                                                    *)
(***************************************************************************)
Lifecycle == {<<"open", "acknowledged">>, <<"acknowledged", "resolved">>,
              <<"open", "closed">>}

\* C19: no step removes an alert, and a step that changes the status of an
\* alert takes it from open to acknowledged, from acknowledged to resolved
\* or from open to closed; so an alert that has left open is never open
\* again, and resolved and closed are never left.
C19_StatusFollowsLifecycle ==
    [][/\ Len(alerts') >= Len(alerts)
       /\ \A i \in 1..Len(alerts) :
            /\ alerts'[i].id = alerts[i].id
            /\ alerts'[i].status # alerts[i].status
                  => <<alerts[i].status, alerts'[i].status>> \in Lifecycle]_vars

\* One alert is resolved, the other closed, and a request to reopen the
\* resolved one has just been refused.
C19_Witness ==
    /\ Len(alerts) = 2
    /\ alerts[1].status = "resolved"
    /\ alerts[2].status = "closed"
    /\ handler = "UpdateAlert"
    /\ req.path = "/v1/alerts/1"
    /\ req.body.items[1].status = "open"
    /\ resp.status # 200

\* The body names no action.
MissingAction(body) ==
    body.kind # "object" \/ body.items = <<>> \/ body.items[1].action = ""

C22_ActionRecorded ==
    [][\A id \in AlertIds : \A body \in ActionBodies :
         (ExecuteAlertAction(id, body) /\ resp'.status = 200)
            => alerts'[id] # alerts[id]]_vars

\* The action isolate_host was answered 200 for alert 1.
C22_Witness ==
    /\ handler = "ExecuteAlertAction"
    /\ req.path = "/v1/alerts/1/actions"
    /\ resp = Response(200, [status |-> "action_executed", alert_id |-> 1,
                             action |-> "isolate_host"])
    /\ Len(alerts) >= 1

Rejected(h) ==
    \/ h.scheme = "" /\ h.jwt = <<>>
    \/ h.scheme # "Bearer "
    \/ h.jwt = <<>>
    \/ ~h.jwt[1].wellformed
    \/ ~h.jwt[1].signed
    \/ h.jwt[1].expired

\* C4: a query answered for a token of tenant T returns no event and no
\* alert of another tenant, whatever the query parameters.
C4_TenantIsolation ==
    (ctx.set /\ resp.status = 200) =>
        /\ handler = "GetEvents" =>
              \A i \in 1..Len(resp.body.events) :
                  resp.body.events[i].tenant_id = ctx.tenant_id
        /\ handler = "GetAlerts" =>
              \A i \in 1..Len(resp.body.alerts) :
                  resp.body.alerts[i].tenant_id = ctx.tenant_id

\* A token of tenant t1 was answered with rows.
C4_Witness ==
    /\ ctx.set
    /\ ctx.tenant_id = "t1"
    /\ handler = "GetEvents"
    /\ resp.status = 200
    /\ Len(resp.body.events) > 0

ProtectedRoute(method, path) ==
    <<method, path>> \in {<<"GET", "/v1/events">>, <<"GET", "/v1/alerts">>,
                          <<"POST", "/v1/alerts/1/actions">>,
                          <<"GET", "/v1/rules">>, <<"POST", "/v1/rules">>}

\* C5: in the router as wired, a request to a bearer-protected route with
\* no token, a malformed header, a bad signature or an expired token is
\* answered 401 and no handler runs.
C5_WiredRoutesRequireToken ==
    (ProtectedRoute(req.method, req.path) /\ Rejected(req.auth)) =>
        (resp.status = 401 /\ handler = "")

\* A protected route was requested without an Authorization header, and
\* its handler answered.
C5_Witness ==
    /\ req.method = "GET"
    /\ req.path = "/v1/alerts"
    /\ req.auth = NoHeader
    /\ handler = "main.getAlerts"
    /\ resp.status = 200

\* The effect AuthMiddleware must have on a request with header h.
AuthGateEffect(h) ==
    /\ UNCHANGED <<events, alerts, passes, dbUp>>
    /\ IF Rejected(h)
       THEN /\ resp'.status = 401
            /\ ctx' = NoCtx
            /\ handler' = ""
       ELSE /\ handler' # ""
            /\ ctx' = [set |-> TRUE, user_id |-> h.jwt[1].user_id,
                       tenant_id |-> h.jwt[1].tenant_id, role |-> h.jwt[1].role]

\* C6: AuthMiddleware aborts with 401 and attaches nothing when the header
\* is absent, lacks the "Bearer " prefix or carries a token that fails
\* validation; with a valid token the next handler runs with user_id,
\* tenant_id and role equal to the token's claims; it changes nothing else.
C6_AuthMiddlewareContract ==
    [][/\ \A r \in EventRequests : ProtectedGetEvents(r[1], r[2]) => AuthGateEffect(r[1])
       /\ \A r \in AlertRequests : ProtectedGetAlerts(r[1], r[2]) => AuthGateEffect(r[1])]_vars

\* The handler ran with the claims of tenant t2's token while alerts were
\* stored.
C6_Witness ==
    /\ handler = "GetAlerts"
    /\ req.auth = Header("Bearer ", TokT2)
    /\ ctx = [set |-> TRUE, user_id |-> "u2", tenant_id |-> "t2", role |-> "admin"]
    /\ resp.status = 200
    /\ Len(alerts) > 0

\* C7: the rejection of AuthMiddleware is the same response whatever the
\* cause: the one it gives to a request without a header.
C7_UniformRejection ==
    (resp.status = 401 /\ handler = "") => resp = AuthMiddleware(NoHeader).resp

\* A request was rejected for an expired token.
C7_Witness ==
    /\ resp.status = 401
    /\ req.auth = Header("Bearer ", TokExpired)

(***************************************************************************)
(* The event store.                                                        *)
(***************************************************************************)
\* C23: every persisted event has a non-empty tenant id, and no step of the
\* system (ingestion, detection, queries, alert actions, rule creation)
\* changes or deletes an event that is already persisted.
C23_EventsTenantedAndImmutable ==
    [][/\ \A i \in 1..Len(events') : events'[i].tenant_id # ""
       /\ Len(events') >= Len(events)
       /\ SubSeq(events', 1, Len(events)) = events]_vars

\* An event without a tenant id was accepted and is in the events table.
C23_Witness ==
    /\ handler = "IngestEvents"
    /\ req.body = Body("array", <<EvNoTenant>>)
    /\ resp = Response(200, [status |-> "ok", count |-> 1])
    /\ Len(events) = 1
    /\ events[1].tenant_id = ""

(***************************************************************************)
(* Pagination.                                                             *)
(***************************************************************************)
\* The value of a numeric query parameter, or the default when it is absent.
GivenOr(param, default) == IF param = <<>> THEN default ELSE param[1]

\* C24: an authenticated GetEvents or GetAlerts query on a reachable
\* database answers 200 even when no row matches, reports the page and the
\* limit it used (1 and 50 when none is given), and returns at most limit
\* items.
C24_PageOfAtMostLimit ==
    [][/\ \A h \in ValidHeaders : \A q \in EventQueries :
            (ProtectedGetEvents(h, q) /\ dbUp) =>
               /\ resp'.status = 200
               /\ resp'.body.page = GivenOr(q.page, 1)
               /\ resp'.body.limit = GivenOr(q.limit, 50)
               /\ Len(resp'.body.events) <= resp'.body.limit
       /\ \A h \in ValidHeaders : \A q \in AlertQueries :
            (ProtectedGetAlerts(h, q) /\ dbUp) =>
               /\ resp'.status = 200
               /\ resp'.body.page = GivenOr(q.page, 1)
               /\ resp'.body.limit = GivenOr(q.limit, 50)
               /\ Len(resp'.body.alerts) <= resp'.body.limit]_vars

\* GET /v1/alerts?limit=-1 was answered 200 with limit -1 and two alerts.
C24_Witness ==
    /\ handler = "GetAlerts"
    /\ req.query = Query("", "", "", "", <<>>, <<-1>>)
    /\ resp.status = 200
    /\ resp.body.limit = -1
    /\ Len(resp.body.alerts) = 2

(***************************************************************************)
(* Rate limiting.                                                          *)
(***************************************************************************)
\* C25: within one window the first 100 requests to the rate-limited route
\* are not answered 429 and every later request is answered 429.
C25_HundredThenRejected ==
    [][\A h \in RateHeaders :
         LimitedGetAlerts(h) =>
            IF sent' <= RequestsPerMinute THEN resp'.status # 429
                                          ELSE resp'.status = 429]_vars

\* The 101st request of the window was answered 200 with the alerts.
C25_Witness ==
    /\ sent = RequestsPerMinute + 1
    /\ req = Request("GET", "/v1/alerts", Header("Bearer ", TokT1), NoQuery, NoBody)
    /\ handler = "GetAlerts"
    /\ resp.status = 200

(***************************************************************************)
(* Repeated events and interleaved passes.                                 *)
(***************************************************************************)
AllFinished == \A p \in 1..Len(passes) : Finished(passes[p])

\* The places in the ingested batches that hold payload e.
Occurrences(e) ==
    UNION {{<<p, i>> : i \in {j \in 1..Len(passes[p].batch) :
                                  [passes[p].batch[j] EXCEPT !.id = 0] = e}} :
           p \in 1..Len(passes)}

\* The stored alerts with this title about payload e.
AlertsAbout(e, title) ==
    {k \in 1..Len(alerts) :
        /\ alerts[k].title = title
        /\ alerts[k].tenant_id = e.tenant_id
        /\ alerts[k].evidence = <<e.event_id>>
        /\ alerts[k].entities = [user |-> e.user_id, host |-> e.host_id]}

\* The argv tokens of e that contain a vocabulary word.
TransferHits(e) ==
    IF e.proc = <<>> THEN {}
    ELSE {k \in 1..Len(e.proc[1].cmd) :
             \E w \in Vocabulary : Contains(e.proc[1].cmd[k], w)}

Content(a) == [a EXCEPT !.id = 0]
CountIn(table, c) == Cardinality({k \in 1..Len(table) : Content(table[k]) = c})
\* The alerts a batch produces when it is processed alone.
Alone(batch) == processEventsForAlerts(batch, 1, 1, <<>>)

RECURSIVE AloneCount(_, _, _)
\* How often c is among the alerts the first n batches produce alone.
AloneCount(ps, n, c) ==
    IF n = 0 THEN 0
    ELSE AloneCount(ps, n - 1, c) + CountIn(Alone(ps[n].batch), c)

AloneContents ==
    UNION {{Content(Alone(passes[p].batch)[k]) : k \in 1..Len(Alone(passes[p].batch))} :
           p \in 1..Len(passes)}

\* C27: concurrent passes do not interfere.  Once every pass has finished,
\* whatever the interleaving, the alerts in the store are, as a multiset
\* and keys apart, the union of the alerts each batch produces alone, and
\* every alert has its own key.
C27_NoInterference ==
    AllFinished =>
        /\ \A k \in 1..Len(alerts) : alerts[k].id = k
        /\ \A c \in AloneContents \cup {Content(alerts[k]) : k \in 1..Len(alerts)} :
              CountIn(alerts, c) = AloneCount(passes, Len(passes), c)

\* The pass of the second batch overtook the pass of the first: the first
\* alert stored is about the second batch, and all four alerts are there.
C27_Witness ==
    /\ AllFinished
    /\ Len(passes) = 2
    /\ [passes[1].batch[1] EXCEPT !.id = 0] = EvTwoTools
    /\ [passes[2].batch[1] EXCEPT !.id = 0] = EvBoth
    /\ Len(alerts) = 4
    /\ alerts[1].tenant_id = "t2"
    /\ alerts[4].tenant_id = "t2"

(***************************************************************************)
(* What a detection pass writes.                                           *)
(***************************************************************************)
\* C28: a step of a detection pass leaves the rule store and the event
\* store unchanged and changes the alert store at most by appending new
\* alerts: every alert that existed before the step is still there,
\* unchanged.
C28_DetectionOnlyInserts ==
    [][\A p \in 1..Len(passes) :
         (DetectToken(p) \/ DetectFile(p)) =>
            /\ rules' = rules
            /\ events' = events
            /\ Len(alerts') >= Len(alerts)
            /\ SubSeq(alerts', 1, Len(alerts)) = alerts]_vars

\* The second pass stored its alert next to the first pass's alert, with
\* two rules and two events in their stores.
C28_Witness ==
    /\ Len(passes) = 2
    /\ passes[2].calls # <<>>
    /\ passes[2].calls[1].ok
    /\ Len(alerts) = 2
    /\ Len(rules) = 2
    /\ Len(events) = 2

(***************************************************************************)
(* Rules and the alerts they produce.                                      *)
(***************************************************************************)
\* C29: only enabled rules produce alerts.  Every stored alert was emitted
\* by a rule of the rule store that is enabled; with no enabled rule in the
\* store, detection emits nothing.
C29_OnlyEnabledRulesAlert ==
    \A k \in 1..Len(alerts) :
        \E r \in 1..Len(rules) : rules[r].id = alerts[k].rule_id /\ rules[r].enabled

\* GET /v1/rules has just listed an empty rule store, and detection has
\* stored an alert.
C29_Witness ==
    /\ handler = "GetRules"
    /\ resp = Response(200, [rules |-> <<>>])
    /\ rules = <<>>
    /\ Len(alerts) = 1
    /\ alerts[1].rule_id = "RULE_AUTO"

(***************************************************************************)
(* The argv scan.                                                          *)
(***************************************************************************)
\* C30: the transfer-tool alerts processEventsForAlerts emits for one event
\* are as many as the argv tokens that contain at least one vocabulary
\* word: a token with several vocabulary words counts once, and the scan
\* goes on with the next token after a hit.  For the event in progress the
\* count is that of the tokens already scanned.
C30_OneAlertPerMatchingToken ==
    \A p \in 1..Len(passes) : \A i \in 1..Len(passes[p].batch) :
        /\ i < passes[p].ei =>
              Cardinality(CallsFor(passes[p], i, TitleTransfer, "high"))
                 = Cardinality(TransferHits(passes[p].batch[i]))
        /\ i = passes[p].ei =>
              Cardinality(CallsFor(passes[p], i, TitleTransfer, "high"))
                 = Cardinality({k \in TransferHits(passes[p].batch[i]) : k < passes[p].ci})

\* The pass over ["ls", "/opt/netcat/ncat", "curl"] has finished with two
\* transfer-tool alerts.
C30_Witness ==
    /\ Len(passes) = 1
    /\ Finished(passes[1])
    /\ [passes[1].batch[1] EXCEPT !.id = 0] = EvChain
    /\ Cardinality(CallsFor(passes[1], 1, TitleTransfer, "high")) = 2
    /\ Len(alerts) = 2

====
